---- MODULE Spec2Model ----
(***************************************************************************)
(* Model of scripts/data/generate_data.py: the generator of chain-state    *)
(* and block fixtures (request_rpc, fetch_chain_state, fetch_block, the    *)
(* intra-block cache pass, next_chain_state and generate_data).            *)
(*                                                                         *)
(* Representation of Python values:                                        *)
(*   - a dict is a record (a function from key strings); a key the dict    *)
(*     does not hold is absent from DOMAIN, so d["k"] raising KeyError is  *)
(*     "k" \notin DOMAIN d;                                                *)
(*   - a hex string is the sequence of its digits' values (0..15), a       *)
(*     decimal string the sequence of its digits (0..9);                   *)
(*   - f'0x{h}' is the record [prefix |-> "0x", hex |-> h];                *)
(*   - an unbounded int is the big-endian sequence of its base-256 digits  *)
(*     without leading zeros (zero is the empty sequence);                 *)
(*   - a Python list is a sequence; index i of the list is element i+1.    *)
(***************************************************************************)
EXTENDS Integers, Sequences, FiniteSets, TLC

VARIABLES
    pc,                  \* position of generate_data
    mode, initial_height, num_blocks, fast,   \* arguments of generate_data
    rich_at, rich_shape, utxo_kind,           \* the node's and the dataset's content
    chain_state, initial_chain_state, next_block_hash, blocks, i,
    block, tmp_utxo_set, \* locals of the loop body
    result, error,       \* what generate_data returns or raises
    rpc_log,             \* heights of the blocks fetched / folded, in order
    rpc_pc, rpc_method, attempt, res, slept, rpc_out   \* request_rpc

vars == <<pc, mode, initial_height, num_blocks, fast, rich_at, rich_shape,
          utxo_kind, chain_state, initial_chain_state, next_block_hash,
          blocks, i, block, tmp_utxo_set, result, error, rpc_log,
          rpc_pc, rpc_method, attempt, res, slept, rpc_out>>

gen_vars == <<pc, mode, initial_height, num_blocks, fast, rich_at, rich_shape,
          utxo_kind, chain_state, initial_chain_state, next_block_hash,
          blocks, i, block, tmp_utxo_set, result, error, rpc_log>>

rpc_vars == <<rpc_pc, rpc_method, attempt, res, slept, rpc_out>>

-----------------------------------------------------------------------------
(* Bounds of the model *)

\* largest num_blocks tried
MaxBlocks == 2
\* most transactions in a block
MaxTxs == 2
\* most outputs of a transaction
MaxOuts == 2
\* height of the node's best block (its header has no nextblockhash)
TipHeight == 2018

\* initial heights tried: around genesis, around the 11-entry window, around
\* the first epoch boundary
InitHeights == {0, 1, 9, 10, 11, 2014, 2015, 2016}
\* initial heights tried when the blocks' transactions vary
TxInitHeights == {0, 1}

Modes == {"light", "full", "utreexo", "other"}

None == [none |-> TRUE]

-----------------------------------------------------------------------------
(* Python built-ins *)

Max(a, b) == IF a >= b THEN a ELSE b

Zeros(n) == [k \in 1..n |-> 0]

\* s[-n:]
LastN(s, n) == SubSeq(s, Max(1, Len(s) - n + 1), Len(s))

\* bytes.fromhex(h)
BytesFromHex(h) == [k \in 1..(Len(h) \div 2) |-> 16 * h[2 * k - 1] + h[2 * k]]

RECURSIVE StripZeros(_)
StripZeros(b) == IF b = <<>> THEN <<>>
                 ELSE IF b[1] = 0 THEN StripZeros(Tail(b)) ELSE b

\* int.from_bytes(b, "big")
IntFromBytes(b) == StripZeros(b)

\* x << s and x >> s for s a multiple of 8
ShiftLeft(x, s) == IF x = <<>> THEN <<>> ELSE x \o Zeros(s \div 8)
ShiftRight(x, s) == SubSeq(x, 1, Len(x) - (s \div 8))

\* one step of the long division of a base-256 number by 10:
\* <<quotient digits so far, remainder>>
RECURSIVE DivMod10(_, _, _)
DivMod10(b, q, r) ==
    IF b = <<>> THEN <<StripZeros(q), r>>
    ELSE LET cur == 256 * r + b[1]
         IN DivMod10(Tail(b), Append(q, cur \div 10), cur % 10)

RECURSIVE DecDigits(_, _)
DecDigits(x, acc) ==
    IF x = <<>> THEN acc
    ELSE LET qr == DivMod10(x, <<>>, 0)
         IN DecDigits(qr[1], <<qr[2]>> \o acc)

\* str(x) of an unbounded int
Str(x) == IF x = <<>> THEN <<0>> ELSE DecDigits(x, <<>>)

\* a machine-size int as the built-in int it is
RECURSIVE SmallInt(_)
SmallInt(b) == IF b = <<>> THEN 0
               ELSE 256 * SmallInt(SubSeq(b, 1, Len(b) - 1)) + b[Len(b)]

\* int(s) of a decimal string
RECURSIVE ParseInt(_)
ParseInt(s) == IF s = <<>> THEN 0
               ELSE 10 * ParseInt(SubSeq(s, 1, Len(s) - 1)) + s[Len(s)]

\* str(n) of a machine-size int
RECURSIVE StrSmall(_)
StrSmall(n) == IF n < 10 THEN <<n>> ELSE Append(StrSmall(n \div 10), n % 10)

\* the 4 hex digits of n < 65536
Hex4(n) == <<n \div 4096, (n \div 256) % 16, (n \div 16) % 16, n % 16>>

-----------------------------------------------------------------------------
(* The Bitcoin node behind request_rpc: a chain of TipHeight + 1 blocks *)

BlockHash(k) == <<"hash", k>>

NodeTime(k) == 1231006505 + 600 * k

\* median of the (up to) 11 timestamps ending at block k
NodeMedianTime(k) == IF k >= 10 THEN NodeTime(k - 5) ELSE NodeTime((k + 1) \div 2)

BitsTable == << <<1,13,0,0,15,15,15,15>>,    \* 1d00ffff
                <<0,3,1,2,3,4,5,6>>,         \* 03123456
                <<0,0,1,2,3,4,5,6>>,         \* 00123456
                <<0,1,1,2,3,4,5,6>>,         \* 01123456
                <<0,2,1,2,3,4,5,6>>,         \* 02123456
                <<0,4,1,2,3,4,5,6>>,         \* 04123456
                <<0,5,0,0,7,2,3,4>>,         \* 05007234
                <<0,1,0,0,3,4,5,6>> >>       \* 01003456

NodeBits(k) == BitsTable[(k % Len(BitsTable)) + 1]

\* cumulative work (k+1) * 0x100010001 as a 16-digit hex string
NodeChainwork(k) == Zeros(4) \o Hex4(k + 1) \o Hex4(k + 1) \o Hex4(k + 1)

\* getblockheader(BlockHash(k)): no previousblockhash at genesis, no
\* nextblockhash at the tip
NodeHeader(k) ==
    LET base == [hash |-> BlockHash(k), height |-> k, version |-> 1,
                 merkleroot |-> <<"merkle", k>>, time |-> NodeTime(k),
                 mediantime |-> NodeMedianTime(k), nonce |-> 3 * k + 1,
                 bits |-> NodeBits(k), chainwork |-> NodeChainwork(k)]
        prev == IF k > 0 THEN ("previousblockhash" :> BlockHash(k - 1)) ELSE <<>>
        next == IF k < TipHeight THEN ("nextblockhash" :> BlockHash(k + 1)) ELSE <<>>
    IN base @@ prev @@ next

\* getblockhash(height) and getblockheader(hash)
getblockhash(height) == BlockHash(height)
getblockheader(hash) == NodeHeader(hash[2])

-----------------------------------------------------------------------------
(* The node's transactions.  Every block is a coinbase-only block except    *)
(* the block rich_at blocks after the initial height, whose shape is        *)
(* rich_shape: ntx transactions of nouts outputs each; the first is the     *)
(* coinbase transaction, with coinbase script cb_script, and transaction    *)
(* j > 1 has one input spending output spends[j-1].vout of transaction      *)
(* spends[j-1].pos of the same block (off = 0) or of the block before       *)
(* (off = 1).  A txid is abbreviated to <<height, position>>.               *)

\* n as an unbounded int
RECURSIVE BigOf(_)
BigOf(n) == IF n = 0 THEN <<>> ELSE Append(BigOf(n \div 256), n % 256)

SpendSpecs(ntx, nouts) ==
    {[off |-> 1, pos |-> 1, vout |-> 0]} \cup
    {[off |-> 0, pos |-> p, vout |-> v] : p \in 1..ntx, v \in 0..(nouts - 1)}

CoinbaseScripts == {<<>>, <<0, 4>>}

Shapes ==
    UNION {[ntx : {n}, nouts : {m}, cb_script : CoinbaseScripts,
            spends : [1..(n - 1) -> SpendSpecs(n, m)]] :
           n \in 1..MaxTxs, m \in 1..MaxOuts}

PlainShape == [ntx |-> 1, nouts |-> 1, cb_script |-> <<0, 4>>, spends |-> <<>>]

ShapeAt(k) == IF rich_at # 0 /\ k = initial_height + rich_at
              THEN rich_shape ELSE PlainShape

Txid(k, j) == <<k, j>>

Sequence32 == <<255, 255, 255, 254>>

NodeVin(k, j) ==
    LET s == ShapeAt(k)
        witness == IF j % 2 = 0 THEN ("txinwitness" :> << <<3, 0, 4, 5>> >>)
                   ELSE <<>>
    IN IF j = 1
       THEN << [coinbase |-> s.cb_script, sequence |-> Sequence32] >>
       ELSE LET r == s.spends[j - 1]
            IN << [txid |-> Txid(k - r.off, r.pos), vout |-> BigOf(r.vout),
                   scriptSig |-> [hex |-> <<4, 8, j>>],
                   sequence |-> Sequence32] @@ witness >>

\* an amount in BTC with 8 decimals: whole + frac / 10^8
NodeVout(k, j) ==
    [n \in 1..ShapeAt(k).nouts |->
        [value |-> [whole |-> j, frac |-> n], n |-> n - 1,
         scriptPubKey |-> [hex |-> <<7, 6, j, n>>]]]

\* the raw encoding starts with the version; a segwit transaction then has
\* the marker and flag bytes 00 01
NodeTx(k, j) ==
    [txid |-> Txid(k, j), version |-> 1 + (j % 2),
     hex |-> <<0, 1, 0, 0, 0, 0, 0, 0>> \o
             (IF j % 2 = 0 THEN <<0, 0, 0, 1>> ELSE <<0, 1, 10, 11>>),
     vin |-> NodeVin(k, j), vout |-> NodeVout(k, j), locktime |-> 0]

\* getblock(hash, 2)
getblock(hash) ==
    LET k == hash[2]
    IN NodeHeader(k) @@ ("tx" :> [j \in 1..ShapeAt(k).ntx |-> NodeTx(k, j)])

\* getrawtransaction(txid, True)
getrawtransaction(txid) ==
    NodeTx(txid[1], txid[2]) @@ ("blockhash" :> BlockHash(txid[1]))

-----------------------------------------------------------------------------
(* The datasets behind the fast path *)

\* get_timestamp_data(height): the timestamps of the (up to) 11 blocks ending
\* at the height, oldest first, and the time of the epoch's first block, as
\* decimal strings
get_timestamp_data(block_height) ==
    [previous_timestamps |->
        [n \in 1..(IF block_height >= 10 THEN 11 ELSE block_height + 1) |->
            StrSmall(NodeTime(Max(0, block_height - 10) + n - 1))],
     epoch_start_time |-> StrSmall(NodeTime((block_height \div 2016) * 2016))]

\* the outpoints the block's inputs spend
SpentOutpoints(k) ==
    {<<NodeVin(k, j)[1].txid, NodeVin(k, j)[1].vout>> : j \in 2..ShapeAt(k).ntx}

\* the dataset's row of an outpoint
UtxoRow(op) ==
    LET k == op[1][1]
        out == NodeVout(k, op[1][2])[SmallInt(op[2]) + 1]
    IN [txid |-> op[1], vout |-> StrSmall(SmallInt(op[2])),
        value |-> StrSmall(out.value.whole * 100000000 + out.value.frac),
        pk_script |-> out.scriptPubKey.hex,
        block_height |-> StrSmall(k),
        median_timestamp |-> StrSmall(IF k = 0 THEN 0 ELSE NodeMedianTime(k - 1)),
        is_coinbase |-> (op[1][2] = 1)]

\* the genesis block's output, which only a block at height 1 can spend
UnrelatedOutpoint == <<Txid(0, 1), <<>> >>

\* get_utxo_set(height): the rows of the snapshot of the block, as a set
\* (the rows' keys are distinct)
get_utxo_set(k) ==
    IF utxo_kind = "empty" THEN {}
    ELSE IF utxo_kind = "other_only" THEN {UtxoRow(UnrelatedOutpoint)}
    ELSE {UtxoRow(op) : op \in SpentOutpoints(k) \cup {UnrelatedOutpoint}}

-----------------------------------------------------------------------------
(* Chain state *)

RECURSIVE backfill_timestamps(_, _, _)
backfill_timestamps(prev_header, prev_timestamps, left) ==
    IF left = 0 \/ prev_header.height = 0 THEN prev_timestamps
    ELSE LET p == getblockheader(prev_header.previousblockhash)
         IN backfill_timestamps(p, <<p.time>> \o prev_timestamps, left - 1)

get_epoch_start_time(block_height) ==
    LET epoch_start_block_height == (block_height \div 2016) * 2016
        epoch_start_block_hash == getblockhash(epoch_start_block_height)
        epoch_start_header == getblockheader(epoch_start_block_hash)
    IN epoch_start_header.time

fetch_chain_state(block_height) ==
    LET head == getblockheader(getblockhash(block_height))
    IN ("prev_timestamps" :> backfill_timestamps(head, <<head.time>>, 10)) @@
       ("epoch_start_time" :>
            IF block_height < 2016 THEN 1231006505
            ELSE get_epoch_start_time(block_height)) @@
       head

fetch_chain_state_fast(block_height) ==
    LET head == getblockheader(getblockhash(block_height))
        data == get_timestamp_data(block_height)
    IN ("prev_timestamps" :>
            [n \in 1..Len(data.previous_timestamps) |->
                ParseInt(data.previous_timestamps[n])]) @@
       ("epoch_start_time" :>
            IF block_height < 2016 THEN 1231006505
            ELSE ParseInt(data.epoch_start_time)) @@
       head

\* mutant: the exponent-0 case is not set apart
bits_to_target_unguarded(bits) ==
    LET exponent == SmallInt(IntFromBytes(BytesFromHex(SubSeq(bits, 1, 2))))
        mantissa == IntFromBytes(BytesFromHex(SubSeq(bits, 3, Len(bits))))
    IN IF exponent <= 3 THEN ShiftRight(mantissa, 8 * (3 - exponent))
       ELSE ShiftLeft(mantissa, 8 * (exponent - 3))

bits_to_target(bits) ==
    LET exponent == SmallInt(IntFromBytes(BytesFromHex(SubSeq(bits, 1, 2))))
        mantissa == IntFromBytes(BytesFromHex(SubSeq(bits, 3, Len(bits))))
    IN IF exponent = 0 THEN mantissa
       ELSE IF exponent <= 3 THEN ShiftRight(mantissa, 8 * (3 - exponent))
       ELSE ShiftLeft(mantissa, 8 * (exponent - 3))

format_chain_state(head) ==
    [block_height |-> head.height,
     total_work |-> Str(IntFromBytes(BytesFromHex(head.chainwork))),
     best_block_hash |-> head.hash,
     current_target |-> Str(bits_to_target(head.bits)),
     epoch_start_time |-> head.epoch_start_time,
     prev_timestamps |-> head.prev_timestamps]

\* mutant: the window keeps 10 entries
next_chain_state_short(current_state, new_block) ==
    LET prev_timestamps == current_state.prev_timestamps \o <<new_block.time>>
    IN ("prev_timestamps" :> LastN(prev_timestamps, 10)) @@
       ("epoch_start_time" :>
            IF new_block.height % 2016 = 0 THEN new_block.time
            ELSE current_state.epoch_start_time) @@
       new_block

\* mutant: the epoch start is taken one block late
next_chain_state_late(current_state, new_block) ==
    LET prev_timestamps == current_state.prev_timestamps \o <<new_block.time>>
    IN ("prev_timestamps" :> LastN(prev_timestamps, 11)) @@
       ("epoch_start_time" :>
            IF new_block.height % 2016 = 1 THEN new_block.time
            ELSE current_state.epoch_start_time) @@
       new_block

\* mutant: the next state copies the current state, not the new block
next_chain_state_stale(current_state, new_block) ==
    LET prev_timestamps == current_state.prev_timestamps \o <<new_block.time>>
    IN ("prev_timestamps" :> LastN(prev_timestamps, 11)) @@
       ("epoch_start_time" :>
            IF new_block.height % 2016 = 0 THEN new_block.time
            ELSE current_state.epoch_start_time) @@
       current_state

next_chain_state(current_state, new_block) ==
    LET prev_timestamps == current_state.prev_timestamps \o <<new_block.time>>
    IN ("prev_timestamps" :> LastN(prev_timestamps, 11)) @@
       ("epoch_start_time" :>
            IF new_block.height % 2016 = 0 THEN new_block.time
            ELSE current_state.epoch_start_time) @@
       new_block

-----------------------------------------------------------------------------
(* Blocks and transactions *)

Prefixed(h) == [prefix |-> "0x", hex |-> h]

\* d.get(key) is truthy
Truthy(d, key) == key \in DOMAIN d /\ d[key] # <<>>

format_output(output) ==
    [value |-> output.value.whole * 100000000 + output.value.frac,
     pk_script |-> Prefixed(output.scriptPubKey.hex),
     cached |-> FALSE]

format_coinbase_input(input) ==
    [script |-> Prefixed(input.coinbase),
     sequence |-> input.sequence,
     previous_output |->
        [txid |-> Zeros(64),
         vout |-> <<255, 255, 255, 255>>,
         data |-> [value |-> 0, pk_script |-> Prefixed(<<>>), cached |-> FALSE],
         block_height |-> 0,
         median_time_past |-> 0,
         is_coinbase |-> FALSE],
     witness |-> << Prefixed(Zeros(64)) >>]

format_outpoint(previous_output) ==
    [txid |-> previous_output.txid,
     vout |-> BigOf(ParseInt(previous_output.vout)),
     data |-> [value |-> ParseInt(previous_output.value),
               pk_script |-> Prefixed(previous_output.pk_script),
               cached |-> FALSE],
     block_height |-> ParseInt(previous_output.block_height),
     median_time_past |-> ParseInt(previous_output.median_timestamp),
     is_coinbase |-> previous_output.is_coinbase]

\* the exception resolve_outpoint raises, "" when it returns
resolve_outpoint_raises(input) ==
    IF "txid" \notin DOMAIN input THEN "KeyError"
    ELSE LET tx == getrawtransaction(input.txid)
             blk == getblockheader(tx.blockhash)
         IN IF "previousblockhash" \notin DOMAIN blk THEN "KeyError"
            ELSE IF SmallInt(input.vout) >= Len(tx.vout) THEN "IndexError"
            ELSE ""

resolve_outpoint(input) ==
    LET tx == getrawtransaction(input.txid)
        blk == getblockheader(tx.blockhash)
        prev_block == getblockheader(blk.previousblockhash)
    IN [txid |-> input.txid,
        vout |-> input.vout,
        data |-> format_output(tx.vout[SmallInt(input.vout) + 1]),
        block_height |-> blk.height,
        median_time_past |-> prev_block.mediantime,
        is_coinbase |-> ("coinbase" \in DOMAIN tx.vin[1])]

\* the snapshot dict of fetch_block: None on the exact path
SnapshotDict(rows) ==
    [is_none |-> FALSE,
     map |-> [key \in {<<o.txid, BigOf(ParseInt(o.vout))>> : o \in rows} |->
                CHOOSE o \in rows : <<o.txid, BigOf(ParseInt(o.vout))>> = key]]

NoSnapshot == [is_none |-> TRUE, map |-> <<>>]

\* "if previous_outputs:" -- neither None nor an empty dict
SnapshotTruthy(previous_outputs) ==
    ~previous_outputs.is_none /\ DOMAIN previous_outputs.map # {}

\* the exception resolve_input raises, "" when it returns
resolve_input_raises(input, previous_outputs) ==
    IF Truthy(input, "coinbase") THEN ""
    ELSE IF SnapshotTruthy(previous_outputs)
    THEN IF "txid" \notin DOMAIN input THEN "KeyError"
         ELSE IF <<input.txid, input.vout>> \notin DOMAIN previous_outputs.map
         THEN "KeyError"
         ELSE ""
    ELSE resolve_outpoint_raises(input)

resolve_input(input, previous_outputs) ==
    IF Truthy(input, "coinbase") THEN format_coinbase_input(input)
    ELSE [script |-> Prefixed(input.scriptSig.hex),
          sequence |-> input.sequence,
          previous_output |->
            IF SnapshotTruthy(previous_outputs)
            THEN format_outpoint(previous_outputs.map[<<input.txid, input.vout>>])
            ELSE resolve_outpoint(input),
          witness |-> IF "txinwitness" \in DOMAIN input
                      THEN [n \in 1..Len(input.txinwitness) |->
                                Prefixed(input.txinwitness[n])]
                      ELSE <<>>]

resolve_transaction(transaction, previous_outputs) ==
    [version |-> transaction.version,
     is_segwit |-> (SubSeq(transaction.hex, 9, 12) = <<0, 0, 0, 1>>),
     inputs |-> [n \in 1..Len(transaction.vin) |->
                    resolve_input(transaction.vin[n], previous_outputs)],
     outputs |-> [n \in 1..Len(transaction.vout) |->
                    format_output(transaction.vout[n])],
     lock_time |-> transaction.locktime]

fetch_block_snapshot(blk, is_fast) ==
    IF is_fast THEN SnapshotDict(get_utxo_set(blk.height)) ELSE NoSnapshot

\* the exception fetch_block raises: that of the first input, in transaction
\* and input order, whose resolution raises; "" when it returns
fetch_block_raises(block_hash, is_fast) ==
    LET blk == getblock(block_hash)
        previous_outputs == fetch_block_snapshot(blk, is_fast)
        raising == {x \in (1..Len(blk.tx)) \X (1..1) :
                        resolve_input_raises(blk.tx[x[1]].vin[x[2]], previous_outputs) # ""}
    IN IF raising = {} THEN ""
       ELSE LET first == CHOOSE x \in raising : \A y \in raising : x[1] <= y[1]
            IN resolve_input_raises(blk.tx[first[1]].vin[first[2]], previous_outputs)

\* block["data"], a dict in insertion order, is the sequence of its items
fetch_block(block_hash, is_fast) ==
    LET blk == getblock(block_hash)
        previous_outputs == fetch_block_snapshot(blk, is_fast)
    IN ("data" :> [t \in 1..Len(blk.tx) |->
                    [key |-> blk.tx[t].txid,
                     value |-> resolve_transaction(blk.tx[t], previous_outputs)]]) @@
       blk

fetch_block_header(block_hash) == getblockheader(block_hash)

format_header(header) ==
    [version |-> header.version,
     time |-> header.time,
     bits |-> SmallInt(IntFromBytes(BytesFromHex(header.bits))),
     nonce |-> header.nonce]

format_block(header) ==
    [header |-> format_header(header),
     data |-> [variant_id |-> 0, merkle_root |-> header.merkleroot]]

format_block_with_transactions(blk) ==
    [header |-> format_header(blk),
     data |-> [variant_id |-> 1,
               transactions |-> [t \in 1..Len(blk.data) |-> blk.data[t].value]]]

-----------------------------------------------------------------------------
(* The cache pass of generate_data.  tmp_utxo_set[outpoint] = output stores *)
(* a reference to the output record of the owning transaction, not a copy:  *)
(* the model keeps the record's place <<transaction, output>> in the        *)
(* block's data, and a write through the reference writes that record.      *)

mark_input(data, t, n) ==
    [data EXCEPT ![t].value.inputs[n].previous_output.data.cached = TRUE]

\* mutant: line 365 is missing, the stored entry is not flagged
mark_entry_lost(data, place) == data

mark_entry(data, place) ==
    [data EXCEPT ![place[1]].value.outputs[place[2]].cached = TRUE]

\* lines 358-365: the inputs n.. of transaction t
RECURSIVE cache_inputs(_, _, _, _)
cache_inputs(data, tmp, t, n) ==
    IF n > Len(data[t].value.inputs) THEN data
    ELSE LET po == data[t].value.inputs[n].previous_output
             outpoint == <<po.txid, po.vout>>
         IN cache_inputs(IF outpoint \in DOMAIN tmp
                         THEN mark_entry(mark_input(data, t, n), tmp[outpoint])
                         ELSE data,
                         tmp, t, n + 1)

\* lines 367-369: the outputs of transaction t
cache_outputs(data, tmp, t) ==
    [op \in {<<data[t].key, BigOf(idx)>> :
                idx \in 0..(Len(data[t].value.outputs) - 1)} |->
        <<t, SmallInt(op[2]) + 1>>] @@ tmp

\* lines 357-369: one transaction, its inputs before its outputs
cache_transaction(acc, t) ==
    [data |-> cache_inputs(acc.data, acc.tmp, t, 1),
     tmp |-> cache_outputs(acc.data, acc.tmp, t)]

RECURSIVE cache_pass_one(_, _)
cache_pass_one(acc, t) ==
    IF t > Len(acc.data) THEN acc
    ELSE cache_pass_one(cache_transaction(acc, t), t + 1)

\* lines 372-376
cache_pass_two(data, tmp) ==
    [t \in 1..Len(data) |->
        [data[t] EXCEPT !.value.outputs =
            [idx \in 1..Len(data[t].value.outputs) |->
                LET outpoint == <<data[t].key, BigOf(idx - 1)>>
                IN IF outpoint \in DOMAIN tmp
                      /\ data[tmp[outpoint][1]].value.outputs[tmp[outpoint][2]].cached
                   THEN [data[t].value.outputs[idx] EXCEPT !.cached = TRUE]
                   ELSE data[t].value.outputs[idx]]]]

\* mutant: the map is created once, before the loop
stale_tmp_utxo_set(previous) == previous

\* line 348
new_tmp_utxo_set(previous) == <<>>

-----------------------------------------------------------------------------
(* generate_data *)

\* get_utreexo_data(height): the accumulator payload of the block
get_utreexo_data(height) == [height |-> height]

UtxoKinds == {"complete", "other_only", "empty"}

RpcErrors == {"ConnectionError", "UnboundLocalError"}

RpcIdle ==
    /\ rpc_pc = "idle"
    /\ rpc_method = ""
    /\ attempt = 0
    /\ res = None
    /\ slept = 0
    /\ rpc_out = None

Init ==
    /\ pc = "start"
    /\ mode \in Modes
    /\ initial_height \in InitHeights
    /\ num_blocks \in 0..MaxBlocks
    /\ fast \in BOOLEAN
    /\ utxo_kind \in (IF fast /\ mode \in {"full", "utreexo"}
                      THEN UtxoKinds ELSE {"complete"})
    /\ rich_at \in (IF mode \in {"full", "utreexo"} /\ initial_height \in TxInitHeights
                    THEN 0..num_blocks ELSE {0})
    /\ rich_shape \in (IF rich_at = 0 THEN {PlainShape} ELSE Shapes)
    /\ chain_state = None
    /\ initial_chain_state = None
    /\ next_block_hash = <<>>
    /\ blocks = <<>>
    /\ i = 0
    /\ block = None
    /\ tmp_utxo_set = <<>>
    /\ result = None
    /\ error = ""
    /\ rpc_log = <<>>
    /\ RpcIdle

args == <<mode, initial_height, num_blocks, fast, rich_at, rich_shape, utxo_kind>>

\* lines 334-342
FetchChainState ==
    /\ pc = "start"
    /\ LET cs == IF fast THEN fetch_chain_state_fast(initial_height)
                 ELSE fetch_chain_state(initial_height)
       IN /\ chain_state' = cs
          /\ initial_chain_state' = cs
          /\ IF "nextblockhash" \in DOMAIN cs
             THEN /\ next_block_hash' = cs.nextblockhash
                  /\ pc' = "loop"
                  /\ error' = error
             ELSE /\ next_block_hash' = next_block_hash
                  /\ pc' = "raised"
                  /\ error' = "KeyError"
    /\ blocks' = <<>>
    /\ UNCHANGED <<args, i, block, tmp_utxo_set, result, rpc_log, rpc_vars>>

\* lines 344-353, 378-379: the head of one iteration
FetchBlock ==
    /\ pc = "loop"
    /\ i < num_blocks
    /\ tmp_utxo_set' = new_tmp_utxo_set(tmp_utxo_set)
    /\ IF mode = "light"
       THEN /\ block' = fetch_block_header(next_block_hash)
            /\ rpc_log' = Append(rpc_log, [op |-> "fetch", hash |-> next_block_hash])
            /\ pc' = "fold"
            /\ error' = error
       ELSE IF mode \in {"full", "utreexo"}
       THEN /\ rpc_log' = Append(rpc_log, [op |-> "fetch", hash |-> next_block_hash])
            /\ IF fetch_block_raises(next_block_hash, fast) = ""
               THEN /\ block' = fetch_block(next_block_hash, fast)
                    /\ pc' = "cache"
                    /\ error' = error
               ELSE /\ block' = block
                    /\ pc' = "raised"
                    /\ error' = fetch_block_raises(next_block_hash, fast)
       ELSE /\ block' = block
            /\ rpc_log' = rpc_log
            /\ pc' = "raised"
            /\ error' = "NotImplementedError"
    /\ UNCHANGED <<args, chain_state, initial_chain_state, next_block_hash,
                   blocks, i, result, rpc_vars>>

\* lines 355-376
CachePass ==
    /\ pc = "cache"
    /\ LET one == cache_pass_one([data |-> block.data, tmp |-> tmp_utxo_set], 1)
       IN /\ block' = [block EXCEPT !.data = cache_pass_two(one.data, one.tmp)]
          /\ tmp_utxo_set' = one.tmp
    /\ pc' = "fold"
    /\ UNCHANGED <<args, chain_state, initial_chain_state, next_block_hash,
                   blocks, i, result, error, rpc_log, rpc_vars>>

\* lines 381-383
FoldBlock ==
    /\ pc = "fold"
    /\ blocks' = Append(blocks, block)
    /\ chain_state' = next_chain_state(chain_state, block)
    /\ rpc_log' = Append(rpc_log, [op |-> "fold", hash |-> block.hash])
    /\ IF "nextblockhash" \in DOMAIN block
       THEN /\ next_block_hash' = block.nextblockhash
            /\ i' = i + 1
            /\ pc' = "loop"
            /\ error' = error
       ELSE /\ next_block_hash' = next_block_hash
            /\ i' = i
            /\ pc' = "raised"
            /\ error' = "KeyError"
    /\ UNCHANGED <<args, initial_chain_state, block, tmp_utxo_set, result, rpc_vars>>

\* lines 387-400
Assemble ==
    /\ pc = "loop"
    /\ i >= num_blocks
    /\ LET fixture ==
            [chain_state |-> format_chain_state(initial_chain_state),
             blocks |-> [n \in 1..Len(blocks) |->
                            IF mode = "light" THEN format_block(blocks[n])
                            ELSE format_block_with_transactions(blocks[n])],
             expected |-> format_chain_state(chain_state)]
       IN IF mode = "utreexo"
          THEN IF Len(blocks) = 1
               THEN /\ result' = ("utreexo" :> get_utreexo_data(blocks[1].height)) @@ fixture
                    /\ pc' = "done"
                    /\ error' = error
               ELSE /\ result' = result
                    /\ pc' = "raised"
                    /\ error' = "AssertionError"
          ELSE /\ result' = fixture
               /\ pc' = "done"
               /\ error' = error
    /\ UNCHANGED <<args, chain_state, initial_chain_state, next_block_hash,
                   blocks, i, block, tmp_utxo_set, rpc_log, rpc_vars>>

\* a request_rpc call of lines 334-338 or 351-353 raises
LookupFails ==
    /\ \/ pc = "start"
       \/ pc = "loop" /\ i < num_blocks /\ mode \in {"light", "full", "utreexo"}
    /\ \E e \in RpcErrors : error' = e
    /\ pc' = "raised"
    /\ UNCHANGED <<args, chain_state, initial_chain_state, next_block_hash,
                   blocks, i, block, tmp_utxo_set, result, rpc_log, rpc_vars>>

Next ==
    \/ FetchChainState
    \/ FetchBlock
    \/ CachePass
    \/ FoldBlock
    \/ Assemble
    \/ LookupFails

Spec == Init /\ [][Next]_vars

-----------------------------------------------------------------------------
(* request_rpc: one call, attempt by attempt *)

RETRIES == 3
DELAY == 2

RpcMethods == {"getblockhash", "getblockheader", "getblock", "getrawtransaction"}

\* what one attempt can do: requests.post raises; res.json() raises; the
\* decoded body has no "result"; the body has a result
AttemptOutcomes == {"post_raises", "json_raises", "no_result", "ok"}

\* lines 52-54: building the message reads res.text, and res is unbound
\* when no requests.post has returned
request_rpc_raise(response) ==
    IF response = None
    THEN [kind |-> "raise", exc |-> "UnboundLocalError"]
    ELSE [kind |-> "raise", exc |-> "ConnectionError", text |-> response.text]

GenIdle ==
    /\ pc = "idle"
    /\ mode = "light"
    /\ initial_height = 0
    /\ num_blocks = 0
    /\ fast = FALSE
    /\ utxo_kind = "complete"
    /\ rich_at = 0
    /\ rich_shape = PlainShape
    /\ chain_state = None
    /\ initial_chain_state = None
    /\ next_block_hash = <<>>
    /\ blocks = <<>>
    /\ i = 0
    /\ block = None
    /\ tmp_utxo_set = <<>>
    /\ result = None
    /\ error = ""
    /\ rpc_log = <<>>

InitRpc ==
    /\ GenIdle
    /\ rpc_pc = "try"
    /\ rpc_method \in RpcMethods
    /\ attempt = 0
    /\ res = None
    /\ slept = 0
    /\ rpc_out = None

\* lines 43-54: one iteration of the loop, up to the return, the raise or
\* the sleep
RpcAttempt ==
    /\ rpc_pc = "try"
    /\ attempt < RETRIES
    /\ \E outcome \in AttemptOutcomes :
        LET response == [text |-> <<rpc_method, attempt, outcome>>]
            res_after == IF outcome = "post_raises" THEN res ELSE response
        IN /\ res' = res_after
           /\ IF outcome = "ok"
              THEN /\ rpc_out' = [kind |-> "return",
                                  value |-> <<"result", rpc_method, attempt>>]
                   /\ rpc_pc' = "returned"
              ELSE IF attempt < RETRIES - 1
              THEN /\ rpc_out' = rpc_out
                   /\ rpc_pc' = "sleeping"
              ELSE /\ rpc_out' = request_rpc_raise(res_after)
                   /\ rpc_pc' = "raised"
    /\ UNCHANGED <<gen_vars, rpc_method, attempt, slept>>

\* line 50, then the next iteration
RpcSleep ==
    /\ rpc_pc = "sleeping"
    /\ slept' = slept + DELAY
    /\ attempt' = attempt + 1
    /\ rpc_pc' = "try"
    /\ UNCHANGED <<gen_vars, rpc_method, res, rpc_out>>

NextRpc ==
    \/ RpcAttempt
    \/ RpcSleep

SpecRpc == InitRpc /\ [][NextRpc]_vars

-----------------------------------------------------------------------------
(* Properties *)

Min(a, b) == IF a <= b THEN a ELSE b

Fetched == pc \in {"loop", "cache", "fold", "done"}

\* C1 (state part): in exact mode every chain state, the fetched one and each
\* folded one, holds min(height + 1, 11) timestamps, the last one its own
\* block's time.
C1_Window ==
    (~fast /\ Fetched) =>
        \A st \in {initial_chain_state, chain_state} :
            /\ Len(st.prev_timestamps) = Min(st.height + 1, 11)
            /\ st.prev_timestamps[Len(st.prev_timestamps)] = st.time

\* C1 (step part): a fold appends the block's time and, once the window holds
\* 11 entries, drops exactly the oldest one.
C1_Step ==
    (~fast /\ pc = "fold") =>
        LET old == chain_state.prev_timestamps
            new == chain_state'.prev_timestamps
        IN IF Len(old) < 11
           THEN new = Append(old, block.time)
           ELSE new = Append(Tail(old), block.time)

\* C1: rolling timestamp window -- len(prev_timestamps) == min(block_height
\* + 1, 11) with the newest entry the state's own block time, and every
\* transition keeps the last 11 entries of prev_timestamps ++ [block.time].
C1_RollingWindow == []C1_Window /\ [][C1_Step]_vars

\* C1 witness: an exact-mode run whose window was saturated before the fold
\* and lost its oldest entry in it.
C1_Witness ==
    /\ ~fast
    /\ pc = "done"
    /\ Len(blocks) >= 1
    /\ Len(initial_chain_state.prev_timestamps) = 11
    /\ chain_state.prev_timestamps[1] # initial_chain_state.prev_timestamps[1]

\* C2 (step part): a fold sets the epoch start to the block's time at a
\* height divisible by 2016 and keeps it at every other height.
C2_Step ==
    pc = "fold" =>
        IF block.height % 2016 = 0
        THEN chain_state'.epoch_start_time = block.time
        ELSE chain_state'.epoch_start_time = chain_state.epoch_start_time

\* C2 (initial part): an initial state below height 2016 carries the fixed
\* epoch start time.
C2_Initial ==
    (Fetched /\ initial_height < 2016) =>
        initial_chain_state.epoch_start_time = 1231006505

\* C2: epoch boundary -- next_chain_state sets epoch_start_time to the
\* block's time exactly at heights divisible by 2016 and leaves it unchanged
\* elsewhere; an initial state below height 2016 has epoch start 1231006505.
C2_EpochBoundary == []C2_Initial /\ [][C2_Step]_vars

\* C2 witness: a run that folded block 2016 (the epoch start changed) and
\* then block 2017 (it stayed).
C2_Witness ==
    /\ pc = "done"
    /\ initial_height = 2015
    /\ Len(blocks) = 2
    /\ chain_state.height = 2017
    /\ chain_state.epoch_start_time = blocks[1].time
    /\ chain_state.epoch_start_time # initial_chain_state.epoch_start_time

FullMode == mode \in {"full", "utreexo"}

\* the transactions of block n of the fixture
Txs(n) == result.blocks[n].data.transactions

\* input m of transaction b of block n spends output idx (from 1) of
\* transaction a of the same block
Spends(n, b, m, a, idx) ==
    LET po == Txs(n)[b].inputs[m].previous_output
    IN /\ po.txid = blocks[n].data[a].key
       /\ po.vout = BigOf(idx - 1)

\* C3: intra-block cache propagation -- when an input of transaction B
\* spends output i of an earlier transaction A of the same block, the
\* fixture flags both the input's previous output and A's output record i.
C3_CachePropagation ==
    (pc = "done" /\ FullMode) =>
        \A n \in 1..Len(result.blocks) :
            \A a \in 1..Len(Txs(n)), b \in 1..Len(Txs(n)) :
                \A m \in 1..Len(Txs(n)[b].inputs), idx \in 1..Len(Txs(n)[a].outputs) :
                    (a < b /\ Spends(n, b, m, a, idx)) =>
                        /\ Txs(n)[b].inputs[m].previous_output.data.cached
                        /\ Txs(n)[a].outputs[idx].cached

\* C3 witness: a fixture with a block in which a later transaction spends
\* the second output of the first one.
C3_Witness ==
    /\ pc = "done"
    /\ FullMode
    /\ \E n \in 1..Len(result.blocks) :
        /\ Len(Txs(n)) >= 2
        /\ Len(Txs(n)[1].outputs) >= 2
        /\ Spends(n, 2, 1, 1, 2)

ExpectedLog(h, n) ==
    [x \in 1..(2 * n) |->
        [op |-> IF x % 2 = 1 THEN "fetch" ELSE "fold",
         hash |-> BlockHash(h + ((x + 1) \div 2))]]

RECURSIVE HexValue(_)
HexValue(h) == IF h = <<>> THEN 0
               ELSE 16 * HexValue(SubSeq(h, 1, Len(h) - 1)) + h[Len(h)]

RECURSIVE Pow2(_)
Pow2(n) == IF n = 0 THEN 1 ELSE 2 * Pow2(n - 1)

\* str(0xffff * 2^(8*(0x1d-3)))
GenesisTargetDigits ==
    <<2,6,9,5,9,5,3,5,2,9,1,0,1,1,3,0,9,4,9,3,1,5,6,4,7,6,3,4,4,7,2,3,9,9,1,3,
      3,6,0,1,0,8,9,8,7,3,8,5,7,4,1,6,4,0,8,6,1,3,7,7,7,3,0,9,6,9,6,0>>

\* the decode the claim states, in machine arithmetic; the one compact value
\* of the node whose target exceeds a machine int is given by its digits
TargetRule(bits) ==
    LET e == HexValue(SubSeq(bits, 1, 2))
        m == HexValue(SubSeq(bits, 3, 8))
    IN IF bits = <<1,13,0,0,15,15,15,15>> THEN GenesisTargetDigits
       ELSE IF e = 0 THEN StrSmall(m)
       ELSE IF e <= 3 THEN StrSmall(m \div Pow2(8 * (3 - e)))
       ELSE StrSmall(m * Pow2(8 * (e - 3)))

\* C10: compact target decode -- the target is m for e = 0, m >> 8*(3-e) for
\* 1 <= e <= 3 and m << 8*(e-3) for e > 3, and the current_target of each
\* formatted chain state is that decode of the state's own block bits.
C10_TargetDecode ==
    pc = "done" =>
        /\ result.chain_state.current_target = TargetRule(initial_chain_state.bits)
        /\ result.expected.current_target = TargetRule(chain_state.bits)

\* C10 witness: a fixture whose initial state has bits 0x1d00ffff and whose
\* expected state has a compact value of exponent 0.
C10_Witness ==
    /\ pc = "done"
    /\ initial_chain_state.bits = <<1,13,0,0,15,15,15,15>>
    /\ SubSeq(chain_state.bits, 1, 2) = <<0, 0>>
    /\ result.expected.current_target = <<1,1,9,3,0,4,6>>

\* the inputs of the node's block at a hash, as <<transaction, input>> places
NodeInputs(hash) ==
    {x \in (1..Len(getblock(hash).tx)) \X (1..1) : x[2] <= Len(getblock(hash).tx[x[1]].vin)}

NodeInput(hash, x) == getblock(hash).tx[x[1]].vin[x[2]]

\* fetch_block has just raised
FetchRaised ==
    /\ pc = "raised"
    /\ Len(rpc_log) > 0
    /\ rpc_log[Len(rpc_log)].op = "fetch"
    /\ error \notin RpcErrors

NullOutpoint ==
    [txid |-> Zeros(64), vout |-> <<255, 255, 255, 255>>,
     data |-> [value |-> 0, pk_script |-> Prefixed(<<>>), cached |-> FALSE],
     block_height |-> 0, median_time_past |-> 0, is_coinbase |-> FALSE]

\* C6: coinbase synthesis -- every coinbase input, whatever its script (an
\* empty one included), bypasses outpoint resolution on both paths and is
\* in the fixture with the null previous output, not flagged by the cache
\* pass: fetching a block whose inputs are all coinbase inputs never raises,
\* and each coinbase input of a fixture's block carries the null outpoint.
C6_CoinbaseSynthesis ==
    /\ FetchRaised =>
        \E x \in NodeInputs(next_block_hash) :
            "coinbase" \notin DOMAIN NodeInput(next_block_hash, x)
    /\ (pc = "done" /\ FullMode) =>
        \A n \in 1..Len(result.blocks) : \A x \in NodeInputs(blocks[n].hash) :
            "coinbase" \in DOMAIN NodeInput(blocks[n].hash, x) =>
                Txs(n)[x[1]].inputs[x[2]].previous_output = NullOutpoint

\* the keys of the snapshot supplied for the block at a height
SnapshotKeys(k) == DOMAIN SnapshotDict(get_utxo_set(k)).map

\* some non-coinbase input of the node's block is absent from its snapshot
MissingFromSnapshot(hash) ==
    \E x \in NodeInputs(hash) :
        /\ "txid" \in DOMAIN NodeInput(hash, x)
        /\ <<NodeInput(hash, x).txid, NodeInput(hash, x).vout>> \notin SnapshotKeys(hash[2])

\* C7: a missing fast-path UTXO entry is fatal -- in fast mode, whatever the
\* snapshot holds (nothing included), a block with a non-coinbase input
\* absent from the snapshot aborts the run: no fixture is returned that
\* holds such a block.
C7_MissingEntryFatal ==
    (fast /\ FullMode /\ pc = "done") =>
        \A n \in 1..Len(blocks) : ~MissingFromSnapshot(blocks[n].hash)

\* C8: an unsupported mode is fatal -- for every mode other than light, full
\* and utreexo, every height and block count (0 included), generate_data
\* returns no fixture, and a run no failed lookup aborted ends in
\* NotImplementedError.
C8_UnsupportedModeFatal ==
    mode \notin {"light", "full", "utreexo"} =>
        /\ pc # "done"
        /\ result = None
        /\ pc = "raised" => error \in {"NotImplementedError"} \cup RpcErrors

\* C9: lookup retry -- a call makes at most RETRIES attempts, returns the
\* result of the first attempt that succeeds, sleeps DELAY between
\* consecutive attempts, and when every attempt fails, in sending or in
\* decoding, raises ConnectionError carrying the last raw response.
C9_LookupRetry ==
    /\ attempt < RETRIES
    /\ slept = DELAY * attempt
    /\ rpc_pc = "returned" =>
        /\ rpc_out.kind = "return"
        /\ rpc_out.value = <<"result", rpc_method, attempt>>
        /\ res.text = <<rpc_method, attempt, "ok">>
    /\ rpc_pc = "raised" =>
        /\ attempt = RETRIES - 1
        /\ rpc_out.kind = "raise"
        /\ rpc_out.exc = "ConnectionError"
        /\ rpc_out.text = res.text

====
